---- MODULE Spec2Model ----
(***************************************************************************)
(* State-machine model of app.py: load_data() fills five module-level       *)
(* tables from four JSON files inside one try block, then the Flask views   *)
(* index() and show_chart() read them.                                      *)
(*                                                                          *)
(* A DataFrame is a sequence of rows; a row is a function from column name  *)
(* to cell.  A frame built from an empty list has no columns.  An operator  *)
(* that can raise returns [exc |-> <exception name or "none">, value |-> v].*)
(***************************************************************************)
EXTENDS Integers, Sequences, FiniteSets, TLC

VARIABLES files, pc, logged, club_data, club_types_data, course_data,
          shot_data, merged_shot_data, response

tables == <<club_data, club_types_data, course_data, shot_data, merged_shot_data>>
vars == <<files, pc, logged, club_data, club_types_data, course_data,
          shot_data, merged_shot_data, response>>

(***************************************************************************)
(* Bounds: the largest number of records in each input file.                *)
(***************************************************************************)
MaxClubs == 2
MaxClubTypes == 2
MaxCourses == 2
MaxShots == 2

(***************************************************************************)
(* Missing cells.  A left merge leaves NaN in the right-hand columns of an  *)
(* unmatched row.  Numeric data of the model is >= 0, so NaN is a number    *)
(* outside the data; the object column `name` holds NaNName.                *)
(***************************************************************************)
NaN == -1
NaNName == "NaN"
NaNOf(col) == IF col = "name" THEN NaNName ELSE NaN

UNKNOWN_CLUB == "Unknown Club"

\* yards = meters * 1.09361, kept in units of 1e-5 yard (meters are integers)
YardsPerMeterE5 == 109361

Ok(v) == [exc |-> "none", value |-> v]
Raise(e) == [exc |-> e, value |-> <<>>]

(***************************************************************************)
(* Input files.  A file is absent, is not JSON, or is {"data": [...]}.      *)
(***************************************************************************)
Missing == [status |-> "missing", data |-> <<>>]
Malformed == [status |-> "malformed", data |-> <<>>]
JsonFile(d) == [status |-> "ok", data |-> d]

RECURSIVE SeqsOfLen(_, _)
SeqsOfLen(S, n) ==
    IF n = 0 THEN {<<>>}
    ELSE {Append(s, x) : s \in SeqsOfLen(S, n - 1), x \in S}
SeqsUpTo(S, n) == UNION {SeqsOfLen(S, k) : k \in 0..n}

FilesOver(S, n) == {Missing, Malformed} \cup {JsonFile(d) : d \in SeqsUpTo(S, n)}

\* Golf-CLUB.json records (primary key is `id` in the file)
ClubRecs ==
    { [id |-> 1, clubTypeId |-> 1, shaftLength |-> 45, flexTypeId |-> 2],
      [id |-> 1, clubTypeId |-> 2, shaftLength |-> 44, flexTypeId |-> 3],
      [id |-> 2, clubTypeId |-> 2, shaftLength |-> 37, flexTypeId |-> 1] }

\* Golf-CLUB_TYPES.json records (key is `value` in the file)
ClubTypeRecs ==
    { [value |-> 1, name |-> "Driver", loftAngle |-> 10],
      [value |-> 2, name |-> "Iron", loftAngle |-> 30] }

\* Golf-COURSE.json elements: a dict is the sequence of its (key, value)
\* items; a key is the sequence of its characters.
K7 == <<"7">>
K12 == <<"1", "2">>
KBad == <<"x">>
CourseEntries ==
    { << <<K7, "Pebble Creek">> >>,
      << <<K12, "Oak Hollow">> >>,
      << >>,
      << <<K7, "Pebble Creek">>, <<K12, "Oak Hollow">> >>,
      << <<KBad, "Nowhere">> >> }

\* Golf-SHOT.json records
ShotRec(c, l, h) == [clubId |-> c, lie |-> l, meters |-> 180, holeNumber |-> h]
ShotRecsByClub == {ShotRec(c, "Fairway", 4) : c \in {1, 99}}
ShotRecs == {ShotRec(c, l, h) : c \in {1, 99}, l \in {"Fairway", "Green", "Water"},
                                h \in {1, 2}}

ClubExample == JsonFile(<< [id |-> 1, clubTypeId |-> 1, shaftLength |-> 45, flexTypeId |-> 2] >>)
ClubTypeExample == JsonFile(<< [value |-> 1, name |-> "Driver", loftAngle |-> 10] >>)
CourseExample == JsonFile(<< << <<K7, "Pebble Creek">> >>, << <<K12, "Oak Hollow">> >> >>)
ShotExample == JsonFile(<< ShotRec(1, "Fairway", 4), ShotRec(99, "Green", 4) >>)

FileSet(club, types, course, shot) ==
    [club : club, club_types : types, course : course, shot : shot]

\* every Club and ClubType file against shots that differ in clubId
JoinInputs ==
    FileSet(FilesOver(ClubRecs, MaxClubs), FilesOver(ClubTypeRecs, MaxClubTypes),
            {CourseExample}, FilesOver(ShotRecsByClub, MaxShots))
\* every Shot file against the example Club and ClubType files
ViewInputs ==
    FileSet({ClubExample}, {ClubTypeExample}, {CourseExample},
            FilesOver(ShotRecs, MaxShots))
\* every Course file against the example files
CourseInputs ==
    FileSet({ClubExample}, {ClubTypeExample}, FilesOver(CourseEntries, MaxCourses),
            {ShotExample})
\* every combination of absent, undecodable and example files
FailureInputs ==
    FileSet({Missing, Malformed, ClubExample}, {Missing, Malformed, ClubTypeExample},
            {Missing, Malformed, CourseExample}, {Missing, Malformed, ShotExample})

Inputs == JoinInputs \cup ViewInputs \cup CourseInputs \cup FailureInputs

(***************************************************************************)
(* pandas / json operations used by load_data                               *)
(***************************************************************************)
\* with open(F) as f: json.load(f)['data']
ReadData(file) ==
    CASE file.status = "missing" -> Raise("FileNotFoundError")
      [] file.status = "malformed" -> Raise("JSONDecodeError")
      [] OTHER -> Ok(file.data)

\* pd.DataFrame(list of dicts)
DataFrame(data) == data

Columns(df) == IF df = <<>> THEN {} ELSE DOMAIN df[1]

\* df.empty
Empty(df) == Len(df) = 0

\* df.rename(columns={old: new}); a column that is absent is left alone
RenameRow(r, old, new) ==
    IF old \in DOMAIN r
    THEN [c \in (DOMAIN r \ {old}) \cup {new} |-> IF c = new THEN r[old] ELSE r[c]]
    ELSE r
Rename(df, old, new) == [i \in DOMAIN df |-> RenameRow(df[i], old, new)]

\* df[[cols]]
Select(df, cols) ==
    IF cols \subseteq Columns(df)
    THEN Ok([i \in DOMAIN df |-> [c \in cols |-> df[i][c]]])
    ELSE Raise("KeyError")

\* left.merge(right, on=on, how='left'): left order kept, one row per matching
\* right row, one NaN-filled row when nothing matches
RECURSIVE LeftMergeRows(_, _, _)
LeftMergeRows(left, right, on) ==
    IF left = <<>> THEN <<>>
    ELSE LET l == Head(left)
             matches == SelectSeq(right, LAMBDA r : r[on] = l[on])
             cols == Columns(right) \ {on}
             rows == IF matches = <<>>
                     THEN << l @@ [c \in cols |-> NaNOf(c)] >>
                     ELSE [k \in DOMAIN matches |-> l @@ [c \in cols |-> matches[k][c]]]
         IN  rows \o LeftMergeRows(Tail(left), right, on)

LeftMerge(left, right, on) ==
    IF on \in Columns(left) /\ on \in Columns(right)
    THEN Ok(LeftMergeRows(left, right, on))
    ELSE Raise("KeyError")

\* df[col] = df[col].fillna(value)
FillNa(df, col, value) ==
    IF col \in Columns(df)
    THEN Ok([i \in DOMAIN df |->
                [df[i] EXCEPT ![col] = IF @ = NaNOf(col) THEN value ELSE @]])
    ELSE Raise("KeyError")

\* int(id) on a string of characters
Digits == <<"0", "1", "2", "3", "4", "5", "6", "7", "8", "9">>
IsDigit(ch) == \E d \in DOMAIN Digits : Digits[d] = ch
DigitVal(ch) == (CHOOSE d \in DOMAIN Digits : Digits[d] = ch) - 1
RECURSIVE DigitsValue(_)
DigitsValue(key) ==
    IF key = <<>> THEN 0
    ELSE 10 * DigitsValue(SubSeq(key, 1, Len(key) - 1)) + DigitVal(key[Len(key)])
ParseIntLastDigit(key) ==
    IF key # <<>> /\ \A k \in DOMAIN key : IsDigit(key[k])
    THEN Ok(DigitVal(key[Len(key)]))
    ELSE Raise("ValueError")
ParseInt(key) ==
    IF key # <<>> /\ \A k \in DOMAIN key : IsDigit(key[k])
    THEN Ok(DigitsValue(key))
    ELSE Raise("ValueError")

\* for id, name in entry.items(): course_list.append({...})
RECURSIVE EntryRecords(_)
EntryRecords(entry) ==
    IF entry = <<>> THEN Ok(<<>>)
    ELSE LET id == ParseInt(Head(entry)[1])
             rest == EntryRecords(Tail(entry))
         IN  IF id.exc # "none" THEN id
             ELSE IF rest.exc # "none" THEN rest
             ELSE Ok(<<[courseId |-> id.value, courseName |-> Head(entry)[2]]>>
                     \o rest.value)

\* for entry in json.load(f)['data']: ...
RECURSIVE CourseList(_)
CourseList(data) ==
    IF data = <<>> THEN Ok(<<>>)
    ELSE LET first == EntryRecords(Head(data))
             rest == CourseList(Tail(data))
         IN  IF first.exc # "none" THEN first
             ELSE IF rest.exc # "none" THEN rest
             ELSE Ok(first.value \o rest.value)

\* shot_data['yards'] = shot_data['meters'] * 1.09361
WithYards(df) ==
    IF "meters" \in Columns(df)
    THEN Ok([i \in DOMAIN df |-> df[i] @@ [c \in {"yards"} |-> df[i].meters * YardsPerMeterE5]])
    ELSE Raise("KeyError")

(***************************************************************************)
(* load_data                                                                *)
(***************************************************************************)
\* the except clause that catches exception e
Handler(e) ==
    CASE e = "FileNotFoundError" -> "FileNotFoundError"
      [] e = "JSONDecodeError" -> "JSONDecodeError"
      [] OTHER -> "Exception"

\* control leaves the try block through an except clause and load_data returns
Except(e) ==
    /\ logged' = Handler(e)
    /\ pc' = "done"

\* plot_json = {} ; the response slot before any request is served
NoPlot == [kind |-> "none"]
NoResponse == [view |-> "none", status |-> 0, plot |-> NoPlot]

Init ==
    /\ files \in Inputs
    /\ pc = "club"
    /\ logged = "none"
    /\ club_data = <<>>
    /\ club_types_data = <<>>
    /\ course_data = <<>>
    /\ shot_data = <<>>
    /\ merged_shot_data = <<>>
    /\ response = NoResponse

LoadClub ==
    /\ pc = "club"
    /\ LET r == ReadData(files.club)
       IN  IF r.exc # "none"
           THEN Except(r.exc) /\ UNCHANGED club_data
           ELSE /\ club_data' = Rename(DataFrame(r.value), "id", "clubId")
                /\ pc' = "club_types"
                /\ UNCHANGED logged
    /\ UNCHANGED <<files, club_types_data, course_data, shot_data,
                   merged_shot_data, response>>

LoadClubTypes ==
    /\ pc = "club_types"
    /\ LET r == ReadData(files.club_types)
       IN  IF r.exc # "none"
           THEN Except(r.exc) /\ UNCHANGED club_types_data
           ELSE /\ club_types_data' = Rename(DataFrame(r.value), "value", "clubTypeId")
                /\ pc' = "course"
                /\ UNCHANGED logged
    /\ UNCHANGED <<files, club_data, course_data, shot_data,
                   merged_shot_data, response>>

LoadCourse ==
    /\ pc = "course"
    /\ LET r == ReadData(files.course)
           l == IF r.exc # "none" THEN r ELSE CourseList(r.value)
       IN  IF l.exc # "none"
           THEN Except(l.exc) /\ UNCHANGED course_data
           ELSE /\ course_data' = DataFrame(l.value)
                /\ pc' = "shot"
                /\ UNCHANGED logged
    /\ UNCHANGED <<files, club_data, club_types_data, shot_data,
                   merged_shot_data, response>>

LoadShot ==
    /\ pc = "shot"
    /\ LET r == ReadData(files.shot)
       IN  IF r.exc # "none"
           THEN Except(r.exc) /\ UNCHANGED shot_data
           ELSE LET y == WithYards(DataFrame(r.value))
                IN  IF y.exc # "none"
                    THEN shot_data' = DataFrame(r.value) /\ Except(y.exc)
                    ELSE /\ shot_data' = y.value
                         /\ pc' = "merge_club"
                         /\ UNCHANGED logged
    /\ UNCHANGED <<files, club_data, club_types_data, course_data,
                   merged_shot_data, response>>

MergeClub ==
    /\ pc = "merge_club"
    /\ LET right == Select(club_data, {"clubId", "clubTypeId", "shaftLength", "flexTypeId"})
           m == IF right.exc # "none" THEN right
                ELSE LeftMerge(shot_data, right.value, "clubId")
       IN  IF m.exc # "none"
           THEN Except(m.exc) /\ UNCHANGED merged_shot_data
           ELSE /\ merged_shot_data' = m.value
                /\ pc' = "merge_club_types"
                /\ UNCHANGED logged
    /\ UNCHANGED <<files, club_data, club_types_data, course_data, shot_data, response>>

MergeClubTypes ==
    /\ pc = "merge_club_types"
    /\ LET right == Select(club_types_data, {"clubTypeId", "name", "loftAngle"})
           m == IF right.exc # "none" THEN right
                ELSE LeftMerge(merged_shot_data, right.value, "clubTypeId")
       IN  IF m.exc # "none"
           THEN Except(m.exc) /\ UNCHANGED merged_shot_data
           ELSE /\ merged_shot_data' = m.value
                /\ pc' = "fillna"
                /\ UNCHANGED logged
    /\ UNCHANGED <<files, club_data, club_types_data, course_data, shot_data, response>>

FillUnknownClub ==
    /\ pc = "fillna"
    /\ LET m == FillNa(merged_shot_data, "name", UNKNOWN_CLUB)
       IN  IF m.exc # "none"
           THEN Except(m.exc) /\ UNCHANGED merged_shot_data
           ELSE /\ merged_shot_data' = m.value
                /\ pc' = "done"
                /\ UNCHANGED logged
    /\ UNCHANGED <<files, club_data, club_types_data, course_data, shot_data, response>>

load_data ==
    \/ LoadClub
    \/ LoadClubTypes
    \/ LoadCourse
    \/ LoadShot
    \/ MergeClub
    \/ MergeClubTypes
    \/ FillUnknownClub

(***************************************************************************)
(* Views.  The charting library is a black box: a figure records the frame  *)
(* and the columns it was given.                                            *)
(***************************************************************************)
Histogram(df, x, nbins) == [kind |-> "histogram", data |-> df, x |-> x, nbins |-> nbins]
Box(df, x, y) == [kind |-> "box", data |-> df, x |-> x, y |-> y]
Bar(df, x, y) == [kind |-> "bar", data |-> df, x |-> x, y |-> y]

\* df[df[col].isin(values)]
Isin(df, col, values) ==
    IF col \in Columns(df)
    THEN Ok(SelectSeq(df, LAMBDA r : r[col] \in values))
    ELSE Raise("KeyError")

\* non_putting_shots, line 107
NonPuttingShots(df) == Isin(df, "lie", {"TeeBox", "Fairway", "Rough", "Bunker"})

\* non_putting_lies, line 116
NonPuttingLiesWithGreen(df) ==
    Isin(df, "lie", {"TeeBox", "Fairway", "Rough", "Bunker", "Green"})
NonPuttingLies(df) == Isin(df, "lie", {"TeeBox", "Fairway", "Rough", "Bunker"})

\* Series.value_counts(): a series of (value, count), most frequent first,
\* equal counts in order of first appearance
CountOf(col, v) == Cardinality({i \in DOMAIN col : col[i] = v})
FirstAt(col, v) == CHOOSE i \in DOMAIN col : col[i] = v /\ \A j \in 1..(i - 1) : col[j] # v
RECURSIVE ByCount(_, _)
ByCount(col, vs) ==
    IF vs = {} THEN <<>>
    ELSE LET v == CHOOSE a \in vs : \A b \in vs :
                      \/ CountOf(col, a) > CountOf(col, b)
                      \/ CountOf(col, a) = CountOf(col, b) /\ FirstAt(col, a) <= FirstAt(col, b)
         IN  << <<v, CountOf(col, v)>> >> \o ByCount(col, vs \ {v})
ValueCounts(col) == ByCount(col, {col[i] : i \in DOMAIN col})

\* Series.sort_index(): ascending by index label
Unsorted(series) == series
RECURSIVE SortIndex(_)
SortIndex(series) ==
    IF series = <<>> THEN <<>>
    ELSE LET k == CHOOSE i \in DOMAIN series :
                      \A j \in DOMAIN series : series[i][1] <= series[j][1]
         IN  <<series[k]>> \o
             SortIndex(SubSeq(series, 1, k - 1) \o SubSeq(series, k + 1, Len(series)))

\* .reset_index() and shots_count.columns = ['Hole', 'Shot Count']
ResetIndex(series, index, values) ==
    [i \in DOMAIN series |->
        [c \in {index, values} |-> IF c = index THEN series[i][1] ELSE series[i][2]]]

\* merged_shot_data['holeNumber'].value_counts().sort_index().reset_index()
ShotsCount(df) ==
    IF "holeNumber" \in Columns(df)
    THEN Ok(ResetIndex(SortIndex(ValueCounts([i \in DOMAIN df |-> df[i].holeNumber])),
                       "Hole", "Shot Count"))
    ELSE Raise("KeyError")

\* the figure a branch of show_chart builds from the frame it guards on
Figure(chart_name, df) ==
    CASE chart_name = "shot_distance_distribution_overall" ->
            LET d == NonPuttingShots(df)
            IN  IF d.exc # "none" THEN d ELSE Ok(Histogram(d.value, "yards", 50))
      [] chart_name = "shot_distance_by_lie" ->
            LET d == NonPuttingLies(df)
            IN  IF d.exc # "none" THEN d ELSE Ok(Box(d.value, "lie", "yards"))
      [] chart_name = "shots_per_hole" ->
            LET d == ShotsCount(df)
            IN  IF d.exc # "none" THEN d ELSE Ok(Bar(d.value, "Hole", "Shot Count"))

Branches == {"shot_distance_distribution_overall", "shot_distance_by_lie", "shots_per_hole"}

\* plot_json after the if/elif chain
PlotJsonNoGuard(chart_name, df) ==
    IF chart_name \in Branches THEN Figure(chart_name, df) ELSE Ok(NoPlot)
PlotJson(chart_name, df) ==
    IF chart_name \in Branches /\ ~Empty(df) THEN Figure(chart_name, df) ELSE Ok(NoPlot)

\* the response of /chart/<chart_name>; an exception leaving the view is a 500
Respond(chart_name, df) ==
    LET p == PlotJson(chart_name, df)
    IN  IF p.exc # "none" THEN [view |-> chart_name, status |-> 500, plot |-> NoPlot]
        ELSE IF p.value # NoPlot THEN [view |-> chart_name, status |-> 200, plot |-> p.value]
        ELSE [view |-> chart_name, status |-> 404, plot |-> NoPlot]

\* chart names a client may ask for: the three views and the commented-out one
ChartNames == Branches \cup {"distance_by_club_type"}

Charts ==
    << [url |-> "/chart/shot_distance_distribution_overall",
        title |-> "Overall Shot Distance Distribution"],
       [url |-> "/chart/shot_distance_by_lie", title |-> "Shot Distance by Lie Type"],
       [url |-> "/chart/shots_per_hole", title |-> "Number of Shots Per Hole"] >>

index ==
    /\ pc = "done"
    /\ response' = [view |-> "index", status |-> 200, plot |-> [kind |-> "index", data |-> Charts]]
    /\ UNCHANGED <<files, pc, logged, tables>>

\* a view that narrows the module-level table instead of a local
show_chart_narrowing(chart_name) ==
    /\ pc = "done"
    /\ response' = Respond(chart_name, merged_shot_data)
    /\ merged_shot_data' =
          IF response'.status = 200 /\ response'.plot.kind # "bar"
          THEN response'.plot.data ELSE merged_shot_data
    /\ UNCHANGED <<files, pc, logged, club_data, club_types_data, course_data, shot_data>>

show_chart(chart_name) ==
    /\ pc = "done"
    /\ response' = Respond(chart_name, merged_shot_data)
    /\ UNCHANGED <<files, pc, logged, tables>>

Next ==
    \/ load_data
    \/ index
    \/ \E chart_name \in ChartNames : show_chart(chart_name)

Spec == Init /\ [][Next]_vars

(***************************************************************************)
(* Properties                                                               *)
(***************************************************************************)
Rows(df) == {df[i] : i \in DOMAIN df}

\* the table each file loads to when read on its own
AloneClub ==
    LET r == ReadData(files.club)
    IN  IF r.exc = "none" THEN Rename(DataFrame(r.value), "id", "clubId") ELSE <<>>
AloneClubTypes ==
    LET r == ReadData(files.club_types)
    IN  IF r.exc = "none" THEN Rename(DataFrame(r.value), "value", "clubTypeId") ELSE <<>>
AloneCourse ==
    LET r == ReadData(files.course)
        l == IF r.exc = "none" THEN CourseList(r.value) ELSE r
    IN  IF l.exc = "none" THEN DataFrame(l.value) ELSE <<>>
AloneShot ==
    LET r == ReadData(files.shot)
        y == IF r.exc = "none" THEN WithYards(DataFrame(r.value)) ELSE r
    IN  IF y.exc = "none" THEN y.value ELSE <<>>

\* C1: when load_data has returned, every table holds what its own file loads
\* to (empty if that file cannot be read), whatever happened to the other files.
C1_LoadErrorsIsolated ==
    pc = "done" =>
        /\ club_data = AloneClub
        /\ club_types_data = AloneClubTypes
        /\ course_data = AloneCourse
        /\ shot_data = AloneShot

ShotColumns == {"lie", "meters", "holeNumber", "clubId", "yards"}

\* C2: after load_data the merged table has as many rows as the Shot table and
\* its i-th row carries lie, meters, holeNumber, clubId and yards of the i-th
\* Shot row.
C2_OneRowPerShot ==
    pc = "done" =>
        /\ Len(merged_shot_data) = Len(shot_data)
        /\ \A i \in DOMAIN shot_data : \A c \in ShotColumns :
               merged_shot_data[i][c] = shot_data[i][c]

\* C3: when the Club and ClubType files are valid, every merged row held after
\* load_data has a non-null name, and a row that matched no Club or whose
\* clubTypeId matched no ClubType is named "Unknown Club".
C3_NameNeverNull ==
    (pc = "done" /\ files.club.status = "ok" /\ files.club_types.status = "ok") =>
        \A m \in Rows(merged_shot_data) :
            /\ "name" \in DOMAIN m
            /\ m.name # NaNName
            /\ (\A t \in Rows(club_types_data) : t.clubTypeId # m.clubTypeId)
                   => m.name = "Unknown Club"

Carries(m, s) == \A c \in ShotColumns : m[c] = s[c]

\* C4: after load_data, a Shot row whose clubId is that of a Club row has a
\* merged row with that Club's clubTypeId, shaftLength and flexTypeId and with
\* the name and loftAngle of the ClubType with that clubTypeId; a Shot row that
\* matches no Club has a merged row with null shaftLength, flexTypeId and
\* loftAngle and the name "Unknown Club".
C4_TwoStepLeftJoin ==
    pc = "done" =>
        \A s \in Rows(shot_data) :
            LET clubs == {c \in Rows(club_data) : c.clubId = s.clubId}
                full == {m \in Rows(merged_shot_data) :
                            {"name", "loftAngle"} \subseteq DOMAIN m /\ Carries(m, s)}
            IN  IF clubs = {}
                THEN \E m \in full :
                        /\ m.shaftLength = NaN /\ m.flexTypeId = NaN /\ m.loftAngle = NaN
                        /\ m.name = "Unknown Club"
                ELSE \A c \in clubs :
                        /\ \E m \in full :
                              /\ m.clubTypeId = c.clubTypeId
                              /\ m.shaftLength = c.shaftLength
                              /\ m.flexTypeId = c.flexTypeId
                        /\ \A t \in Rows(club_types_data) :
                              t.clubTypeId = c.clubTypeId =>
                                  \E m \in full :
                                      /\ m.shaftLength = c.shaftLength
                                      /\ m.name = t.name /\ m.loftAngle = t.loftAngle

\* C5: while the merged table is empty, a request for any of the three views
\* is answered 404, never with an error; any other chart name is answered 404
\* whatever the table holds.
C5_EmptyTableNotFound ==
    (pc = "done" /\ response.view \notin {"none", "index"}) =>
        /\ Empty(merged_shot_data) => response.status = 404
        /\ response.view \notin {"shot_distance_distribution_overall",
                                 "shot_distance_by_lie", "shots_per_hole"}
               => response.status = 404
C5_Witness ==
    /\ pc = "done"
    /\ logged # "none"
    /\ shot_data # <<>>
    /\ Empty(merged_shot_data)
    /\ response.view = "shots_per_hole"
    /\ response.status = 404

\* the Course step of load_data has run
CourseRead ==
    /\ pc \notin {"club", "club_types", "course"}
    /\ files.club.status = "ok"
    /\ files.club_types.status = "ok"
    /\ files.course.status = "ok"

IdOf(key) == CASE key = K7 -> 7 [] key = K12 -> 12

RECURSIVE KeysBefore(_, _)
KeysBefore(d, i) == IF i <= 1 THEN 0 ELSE KeysBefore(d, i - 1) + Len(d[i - 1])

C7_NoMutationAfterStartup ==
    [][pc = "done" =>
          /\ tables' = tables
          /\ response'.view = response.view => response' = response]_vars
C7_Witness ==
    /\ pc = "done"
    /\ response.view = "shot_distance_by_lie"
    /\ response.status = 200
    /\ Len(response.plot.data) < Len(merged_shot_data)

RECURSIVE SumCounts(_)
SumCounts(series) ==
    IF series = <<>> THEN 0 ELSE Head(series)["Shot Count"] + SumCounts(Tail(series))

\* C8: for a non-empty merged table the shots_per_hole series has one entry
\* per distinct holeNumber, each with the number of merged rows of that hole,
\* in strictly ascending hole order; the counts add up to the row count.
C8_ShotsPerHole ==
    (pc = "done" /\ response.view = "shots_per_hole" /\ ~Empty(merged_shot_data)) =>
        /\ response.status = 200
        /\ LET series == response.plot.data
               holes == {m.holeNumber : m \in Rows(merged_shot_data)}
           IN  /\ Len(series) = Cardinality(holes)
               /\ {series[k]["Hole"] : k \in DOMAIN series} = holes
               /\ \A k \in DOMAIN series :
                      series[k]["Shot Count"] =
                          Cardinality({i \in DOMAIN merged_shot_data :
                                          merged_shot_data[i].holeNumber = series[k]["Hole"]})
               /\ \A k \in 1..(Len(series) - 1) : series[k]["Hole"] < series[k + 1]["Hole"]
               /\ SumCounts(series) = Len(merged_shot_data)
C8_Witness ==
    /\ pc = "done"
    /\ response.view = "shots_per_hole"
    /\ response.status = 200
    /\ Len(response.plot.data) = 2
    /\ merged_shot_data[1].holeNumber > merged_shot_data[Len(merged_shot_data)].holeNumber

\* C9: the frame charted by shot_distance_distribution_overall and by
\* shot_distance_by_lie is the merged rows whose lie is TeeBox, Fairway, Rough
\* or Bunker, each of them once and in order, and no other row.
C9_NonPuttingDataset ==
    (/\ pc = "done"
     /\ response.view \in {"shot_distance_distribution_overall", "shot_distance_by_lie"}
     /\ ~Empty(merged_shot_data)) =>
        /\ response.status = 200
        /\ LET data == response.plot.data
               keep == {i \in DOMAIN merged_shot_data :
                           merged_shot_data[i].lie \in {"TeeBox", "Fairway", "Rough", "Bunker"}}
           IN  /\ Len(data) = Cardinality(keep)
               /\ \A i \in keep :
                      data[Cardinality({j \in keep : j <= i})] = merged_shot_data[i]
               /\ \A k \in DOMAIN data : data[k].lie # "Green"
C9_Witness ==
    /\ pc = "done"
    /\ response.view = "shot_distance_distribution_overall"
    /\ response.status = 200
    /\ Len(merged_shot_data) = 2
    /\ merged_shot_data[1].lie = "Green"
    /\ Len(response.plot.data) = 1
    /\ response.plot.data[1].lie = "Fairway"

\* C10: whenever load_data has returned, the merged table is empty or is the
\* finished result: every row has the name and loftAngle columns and a
\* non-null name.
C10_MergedPublishedWhole ==
    pc = "done" =>
        \/ merged_shot_data = <<>>
        \/ \A m \in Rows(merged_shot_data) :
               {"name", "loftAngle"} \subseteq DOMAIN m /\ m.name # NaNName

====
